---- MODULE Spec2Model ----
(***************************************************************************)
(* The "run" command of render.py: validation of the configuration, then   *)
(* the job loop (state load, attachments, filters, tasks) over the files   *)
(* of the output directory.                                                *)
(*                                                                         *)
(* Text is a sequence of one-character strings, so that concatenation,     *)
(* replacement and matching are computed.  A TOML/JSON value is a tagged   *)
(* record: Str, Num, Dict (an ordered sequence of <<key, value>> pairs,    *)
(* as Python dicts keep insertion order) or List.                          *)
(***************************************************************************)
EXTENDS Integers, Sequences, FiniteSets, TLC

\* ------------------------------------------------------------------ bounds
\* Runs of the process that may be started.
MaxRuns == 2
\* Edits of the configuration file made between runs.
MaxEdits == 1

\* -------------------------------------------------------------------- text
\* s[i..] starts with p
StartsWithAt(s, i, p) ==
    /\ i + Len(p) - 1 <= Len(s)
    /\ \A j \in 1..Len(p) : s[i + j - 1] = p[j]

\* str.replace(old, new): leftmost, non-overlapping occurrences, old non-empty
RECURSIVE ReplaceFrom(_, _, _, _)
ReplaceFrom(s, i, old, new) ==
    IF i > Len(s) THEN <<>>
    ELSE IF StartsWithAt(s, i, old)
         THEN new \o ReplaceFrom(s, i + Len(old), old, new)
         ELSE <<s[i]>> \o ReplaceFrom(s, i + 1, old, new)

Replace(s, old, new) == ReplaceFrom(s, 1, old, new)

DigitChars == <<"0", "1", "2", "3", "4", "5", "6", "7", "8", "9">>

IsDigitChar(c) == \E d \in 1..10 : DigitChars[d] = c

DigitValue(c) == (CHOOSE d \in 1..10 : DigitChars[d] = c) - 1

\* str(n) for n >= 0
RECURSIVE IntToText(_)
IntToText(n) ==
    IF n < 10 THEN <<DigitChars[n + 1]>>
    ELSE IntToText(n \div 10) \o <<DigitChars[(n % 10) + 1]>>

\* int(s) for a text of digits
RECURSIVE TextToInt(_)
TextToInt(s) ==
    IF s = <<>> THEN 0
    ELSE TextToInt(SubSeq(s, 1, Len(s) - 1)) * 10 + DigitValue(s[Len(s)])

\* str.isdigit(): non-empty and every character a digit
IsDigit(s) == s # <<>> /\ \A i \in 1..Len(s) : IsDigitChar(s[i])

\* f"{n}": no padding
NoPad(s, w) == s

\* f"{n:0{w}d}"
RECURSIVE ZeroPad(_, _)
ZeroPad(s, w) == IF Len(s) >= w THEN s ELSE ZeroPad(<<"0">> \o s, w)

\* str.rstrip("0")
RECURSIVE RStripZeros(_)
RStripZeros(s) ==
    IF s # <<>> /\ s[Len(s)] = "0" THEN RStripZeros(SubSeq(s, 1, Len(s) - 1)) ELSE s

\* str.split(sep) for a one-character sep
RECURSIVE SplitFrom(_, _, _, _)
SplitFrom(s, i, sep, acc) ==
    IF i > Len(s) THEN <<acc>>
    ELSE IF s[i] = sep
         THEN <<acc>> \o SplitFrom(s, i + 1, sep, <<>>)
         ELSE SplitFrom(s, i + 1, sep, Append(acc, s[i]))

Split(s, sep) == SplitFrom(s, 1, sep, <<>>)

RECURSIVE Pow10(_)
Pow10(n) == IF n = 0 THEN 1 ELSE 10 * Pow10(n - 1)

\* ---------------------------------------------------------- timecode codec
\* A timestamp is an integer number of microseconds.  It is held as the pair
\* <<whole seconds, microseconds below one second>>, which keeps values up to
\* 10^12 within the checker's integers; the arithmetic below is the code's
\* arithmetic on that pair.
SecondMicros == 1000000
HourSeconds == 3600
MinuteSeconds == 60
FractionDigits == 6

Timestamp(seconds, micros) ==
    <<seconds + micros \div SecondMicros, micros % SecondMicros>>

\* timestamp_to_timecode: "HH:MM:SS.ffffff"
timestamp_to_timecode(timestamp) ==
    LET hours == timestamp[1] \div HourSeconds
        t1 == timestamp[1] - hours * HourSeconds
        minutes == t1 \div MinuteSeconds
        seconds == t1 - minutes * MinuteSeconds
        rest == timestamp[2]
    IN  ZeroPad(IntToText(hours), 2) \o <<":">> \o ZeroPad(IntToText(minutes), 2)
        \o <<":">> \o ZeroPad(IntToText(seconds), 2)
        \o <<".">> \o ZeroPad(IntToText(rest), FractionDigits)

\* the whole seconds of a timestamp
WholeSeconds(timestamp) == IntToText(timestamp[1])

\* timestamp_to_short_timecode: leading zero components and trailing zero
\* fraction digits dropped
timestamp_to_short_timecode(timestamp) ==
    LET hours == timestamp[1] \div HourSeconds
        t1 == timestamp[1] - hours * HourSeconds
        minutes == t1 \div MinuteSeconds
        seconds == t1 - minutes * MinuteSeconds
        rest == timestamp[2]
        timestamp_string ==
            IF rest = 0 THEN <<>>
            ELSE RStripZeros(<<".">> \o ZeroPad(IntToText(rest), FractionDigits))
    IN  IF hours > 0
        THEN IntToText(hours) \o <<":">> \o ZeroPad(IntToText(minutes), 2)
             \o <<":">> \o ZeroPad(IntToText(seconds), 2) \o timestamp_string
        ELSE IF minutes > 0
        THEN IntToText(minutes) \o <<":">> \o ZeroPad(IntToText(seconds), 2)
             \o timestamp_string
        ELSE IntToText(seconds) \o timestamp_string

\* TIMECODE_PATTERN ^(\d+):(\d+):(\d+)(?:\.(\d+))?$ : the groups, or <<>> when
\* the text does not match (group 4 is <<>> when absent, which \d+ never gives)
TimecodeGroups(value) ==
    LET parts == Split(value, ":")
    IN  IF Len(parts) # 3 \/ ~IsDigit(parts[1]) \/ ~IsDigit(parts[2]) THEN <<>>
        ELSE LET last == Split(parts[3], ".")
             IN  IF Len(last) = 1 /\ IsDigit(last[1])
                 THEN <<parts[1], parts[2], last[1], <<>>>>
                 ELSE IF Len(last) = 2 /\ IsDigit(last[1]) /\ IsDigit(last[2])
                 THEN <<parts[1], parts[2], last[1], last[2]>>
                 ELSE <<>>

\* whether timecode(value) returns (it raises ArgumentTypeError otherwise)
TimecodeParses(value) == IsDigit(value) \/ TimecodeGroups(value) # <<>>

\* round(float("0." + fraction_string) * 1e6) for more than 6 digits, with
\* Python's round-half-to-even on the decimal value
RoundFraction(fraction_string) ==
    LET scale == Pow10(Len(fraction_string) - FractionDigits)
        n == TextToInt(fraction_string)
        q == n \div scale
        r == n % scale
    IN  IF 2 * r > scale \/ (2 * r = scale /\ q % 2 = 1) THEN q + 1 ELSE q

\* int(value) of a text of digits, as a timestamp
DigitsToTimestamp(value) ==
    IF Len(value) <= FractionDigits THEN Timestamp(0, TextToInt(value))
    ELSE Timestamp(TextToInt(SubSeq(value, 1, Len(value) - FractionDigits)),
                   TextToInt(SubSeq(value, Len(value) - FractionDigits + 1, Len(value))))

\* timecode(value) where it parses
timecode(value) ==
    IF IsDigit(value) THEN DigitsToTimestamp(value)
    ELSE LET match == TimecodeGroups(value)
             result == TextToInt(match[1]) * HourSeconds
                       + TextToInt(match[2]) * MinuteSeconds
                       + TextToInt(match[3])
             fraction_string == match[4]
         IN  IF fraction_string = <<>> THEN Timestamp(result, 0)
             ELSE IF Len(fraction_string) = FractionDigits
             THEN Timestamp(result, TextToInt(fraction_string))
             ELSE IF Len(fraction_string) < FractionDigits
             THEN Timestamp(result, TextToInt(fraction_string)
                                    * Pow10(FractionDigits - Len(fraction_string)))
             ELSE Timestamp(result, RoundFraction(fraction_string))

\* ------------------------------------------------------------------ values
Str(s) == [t |-> "str", v |-> s]
Num(n) == [t |-> "int", v |-> n]
Dict(pairs) == [t |-> "dict", v |-> pairs]
List(items) == [t |-> "list", v |-> items]
Bool(b) == [t |-> "bool", v |-> b]

IsStr(x) == x.t = "str"
IsDict(x) == x.t = "dict"

\* dict operations on an ordered sequence of <<key, value>> pairs
Has(pairs, key) == \E i \in 1..Len(pairs) : pairs[i][1] = key

Get(pairs, key) == pairs[CHOOSE i \in 1..Len(pairs) : pairs[i][1] = key][2]

\* d[key] = value: in place when the key exists, appended otherwise
Put(pairs, key, value) ==
    IF Has(pairs, key)
    THEN [i \in 1..Len(pairs) |->
            IF pairs[i][1] = key THEN <<key, value>> ELSE pairs[i]]
    ELSE Append(pairs, <<key, value>>)

Keys(pairs) == [i \in 1..Len(pairs) |-> pairs[i][1]]

\* the characters of the model's texts, in code point order
Alphabet ==
    <<"(", ")", "*", "-", ".", "0", "1", "2", "3", "4", "5", "6", "7", "8", "9",
      ":", "@", "a", "b", "c", "d", "e", "f", "g", "h", "i", "j", "k", "l", "m",
      "n", "o", "p", "q", "r", "s", "t", "u", "v", "w", "x", "y", "z">>

CharRank(c) == CHOOSE i \in 1..Len(Alphabet) : Alphabet[i] = c

\* a < b as Python compares str
RECURSIVE TextLess(_, _)
TextLess(a, b) ==
    IF b = <<>> THEN FALSE
    ELSE IF a = <<>> THEN TRUE
    ELSE IF Head(a) = Head(b) THEN TextLess(Tail(a), Tail(b))
    ELSE CharRank(Head(a)) < CharRank(Head(b))

\* the pairs in ascending key order (keys are distinct)
RECURSIVE InsertSorted(_, _)
InsertSorted(sorted, pair) ==
    IF sorted = <<>> THEN <<pair>>
    ELSE IF TextLess(pair[1], Head(sorted)[1]) THEN <<pair>> \o sorted
    ELSE <<Head(sorted)>> \o InsertSorted(Tail(sorted), pair)

RECURSIVE SortByKey(_)
SortByKey(pairs) ==
    IF pairs = <<>> THEN <<>>
    ELSE InsertSorted(SortByKey(Tail(pairs)), Head(pairs))

IsList(x) == x.t = "list"

\* json.dumps(value, sort_keys=True, separators=(",", ":")).  The text is held
\* as the value with the keys of every dict, at any depth, in sorted order:
\* the rendering of such a value to text is one-to-one (every type has its
\* own syntax).
RECURSIVE json_dumps_sorted(_)
json_dumps_sorted(value) ==
    IF IsDict(value)
    THEN LET sorted == SortByKey(value.v)
         IN  Dict([i \in 1..Len(sorted) |->
                     <<sorted[i][1], json_dumps_sorted(sorted[i][2])>>])
    ELSE IF IsList(value)
    THEN List([i \in 1..Len(value.v) |-> json_dumps_sorted(value.v[i])])
    ELSE value

\* the two values compared as they are, key order included
OrderedEqual(a, b) == a = b

compare_parameters(a, b) == json_dumps_sorted(a) = json_dumps_sorted(b)

\* toml.load(toml.dump(value)): within every table the encoder writes the
\* plain values first and the sub-tables after them, so the dict read back
\* holds the same keys and values in that order
RECURSIVE toml_round_trip(_)
toml_round_trip(value) ==
    IF IsDict(value)
    THEN LET plain == SelectSeq(value.v, LAMBDA kv : ~IsDict(kv[2]))
             tables == SelectSeq(value.v, LAMBDA kv : IsDict(kv[2]))
         IN  Dict(plain \o [i \in 1..Len(tables) |->
                              <<tables[i][1], toml_round_trip(tables[i][2])>>])
    ELSE value

\* ------------------------------------------------------------ generators
K_name == <<"n", "a", "m", "e">>
K_type == <<"t", "y", "p", "e">>
K_suffix == <<"s", "u", "f", "f", "i", "x">>
K_begin == <<"b", "e", "g", "i", "n">>
K_end == <<"e", "n", "d">>
K_filters == <<"f", "i", "l", "t", "e", "r", "s">>
K_tasks == <<"t", "a", "s", "k", "s">>

\* str(value) of a parameter value
ToText(value) ==
    IF IsStr(value) THEN value.v
    ELSE IF value.t = "bool" THEN (IF value.v THEN <<"T", "r", "u", "e">> ELSE <<"F", "a", "l", "s", "e">>)
    ELSE IntToText(value.v)

\* f"@{parameter_name}" and f"@raw({parameter_name})"
Placeholder(parameter_name) == <<"@">> \o parameter_name
RawPlaceholder(parameter_name) ==
    <<"@", "r", "a", "w", "(">> \o parameter_name \o <<")">>

\* a template left as it is
NoReplace(template, parameter_name, parameter_value) == template

\* "@raw(p)" replaced by the text of the value
RECURSIVE ReplaceAsText(_, _, _)
ReplaceAsText(template, parameter_name, parameter_value) ==
    [i \in 1..Len(template) |->
        LET key == template[i][1]
            value == template[i][2]
        IN  IF IsStr(value)
            THEN IF value.v = RawPlaceholder(parameter_name)
                 THEN <<key, Str(ToText(parameter_value))>>
                 ELSE <<key, Str(Replace(value.v, Placeholder(parameter_name),
                                         ToText(parameter_value)))>>
            ELSE IF IsDict(value)
            THEN <<key, Dict(ReplaceAsText(value.v, parameter_name,
                                           parameter_value))>>
            ELSE template[i]]

\* recursive_replace: string values and nested dicts; every other value
\* (a list, a number) is left as it is
RECURSIVE recursive_replace(_, _, _)
recursive_replace(template, parameter_name, parameter_value) ==
    [i \in 1..Len(template) |->
        LET key == template[i][1]
            value == template[i][2]
        IN  IF IsStr(value)
            THEN IF value.v = RawPlaceholder(parameter_name)
                 THEN <<key, parameter_value>>
                 ELSE <<key, Str(Replace(value.v, Placeholder(parameter_name),
                                         ToText(parameter_value)))>>
            ELSE IF IsDict(value)
            THEN <<key, Dict(recursive_replace(value.v, parameter_name,
                                               parameter_value))>>
            ELSE template[i]]

\* the parameters in the order of their declaration
DeclarationOrder(pairs) == pairs

\* sorted(items, key=-len(name)): stable, longest name first
RECURSIVE InsertByLength(_, _)
InsertByLength(sorted, pair) ==
    IF sorted = <<>> THEN <<pair>>
    ELSE IF Len(pair[1]) > Len(Head(sorted)[1]) THEN <<pair>> \o sorted
    ELSE <<Head(sorted)>> \o InsertByLength(Tail(sorted), pair)

RECURSIVE SortByLength(_)
SortByLength(pairs) ==
    IF pairs = <<>> THEN <<>>
    ELSE InsertByLength(SortByLength(SubSeq(pairs, 1, Len(pairs) - 1)),
                        pairs[Len(pairs)])

\* the inner loop of run_generators over the sorted parameters, for index i:
\* <<generated_entry_name, generated_entry>>
RECURSIVE SubstituteAll(_, _, _, _)
SubstituteAll(names_and_values, i, name, entry) ==
    IF names_and_values = <<>> THEN <<name, entry>>
    ELSE LET parameter_name == Head(names_and_values)[1]
             parameter_value == Head(names_and_values)[2][i]
         IN  SubstituteAll(Tail(names_and_values), i,
                           Replace(name, Placeholder(parameter_name),
                                   ToText(parameter_value)),
                           recursive_replace(entry, parameter_name, parameter_value))

WithoutKey(pairs, key) == SelectSeq(pairs, LAMBDA kv : kv[1] # key)

NoError == "none"

\* a generator that assigns every generated entry, existing name or not
RECURSIVE GenerateOverwriting(_, _, _, _, _, _)
GenerateOverwriting(key, collection, template, names_and_values, i, count) ==
    IF i > count THEN [error |-> NoError, collection |-> collection]
    ELSE LET generated == SubstituteAll(names_and_values, i,
                              Get(template, K_name).v,
                              WithoutKey(template, K_name))
         IN  GenerateOverwriting(key,
                 Put(collection, generated[1], Dict(generated[2])),
                 template, names_and_values, i + 1, count)

\* one generator applied to a collection (filters or tasks: pairs keyed by
\* name; jobs: a sequence), for the indices i..count
RECURSIVE GenerateFrom(_, _, _, _, _, _)
GenerateFrom(key, collection, template, names_and_values, i, count) ==
    IF i > count THEN [error |-> NoError, collection |-> collection]
    ELSE IF key = "jobs"
    THEN GenerateFrom(key,
             Append(collection,
                    Dict(SubstituteAll(names_and_values, i, <<>>, template)[2])),
             template, names_and_values, i + 1, count)
    ELSE LET generated == SubstituteAll(names_and_values, i,
                              Get(template, K_name).v,
                              WithoutKey(template, K_name))
         IN  IF Has(collection, generated[1])
             THEN [error |-> "name already exists", collection |-> collection]
             ELSE GenerateFrom(key,
                      Append(collection, <<generated[1], Dict(generated[2])>>),
                      template, names_and_values, i + 1, count)

\* zip(*values): as many tuples as the shortest sequence holds
MinCount(parameters) ==
    CHOOSE n \in {Len(parameters[i][2]) : i \in 1..Len(parameters)} :
        \A i \in 1..Len(parameters) : n <= Len(parameters[i][2])

\* a generator whose sequences are zipped whatever their lengths
RunGeneratorZipping(key, collection, generator) ==
    IF generator.parameters = <<>>
    THEN [error |-> "no parameters", collection |-> collection]
    ELSE GenerateFrom(key, collection, generator.template.v,
                      SortByLength(generator.parameters), 1,
                      MinCount(generator.parameters))

RunGenerator(key, collection, generator) ==
    IF generator.parameters = <<>>
    THEN [error |-> "no parameters", collection |-> collection]
    ELSE IF \E i \in 1..Len(generator.parameters) :
                Len(generator.parameters[i][2]) # Len(generator.parameters[1][2])
    THEN [error |-> "different numbers of values", collection |-> collection]
    ELSE GenerateFrom(key, collection, generator.template.v,
                      SortByLength(generator.parameters), 1,
                      MinCount(generator.parameters))

\* the generators of one kind, in order; the first error ends the process
RECURSIVE RunGeneratorsOfKind(_, _, _)
RunGeneratorsOfKind(key, collection, generators) ==
    IF generators = <<>> THEN [error |-> NoError, collection |-> collection]
    ELSE LET first == RunGenerator(key, collection, Head(generators))
         IN  IF first.error # NoError THEN first
             ELSE RunGeneratorsOfKind(key, first.collection, Tail(generators))

\* run_generators: filters, then tasks, then jobs; the generator keys are
\* deleted from the configuration
run_generators(configuration) ==
    LET f == RunGeneratorsOfKind("filters", configuration.filters,
                                 configuration.filters_generators)
        t == RunGeneratorsOfKind("tasks", configuration.tasks,
                                 configuration.tasks_generators)
        j == RunGeneratorsOfKind("jobs", configuration.jobs,
                                 configuration.jobs_generators)
        error == IF f.error # NoError THEN f.error
                 ELSE IF t.error # NoError THEN t.error
                 ELSE j.error
    IN  [error |-> error,
         configuration |->
            [configuration EXCEPT !.filters = f.collection,
                                  !.tasks = t.collection,
                                  !.jobs = j.collection,
                                  !.filters_generators = <<>>,
                                  !.tasks_generators = <<>>,
                                  !.jobs_generators = <<>>]]

\* -------------------------------------------------------------- validation
\* re.fullmatch for the patterns of the model: literal characters, "." and
\* a postfix "*"
CharMatches(p, c) == p = "." \/ p = c

RECURSIVE fullmatch(_, _)
fullmatch(pattern, text) ==
    IF pattern = <<>> THEN text = <<>>
    ELSE IF Len(pattern) >= 2 /\ pattern[2] = "*"
    THEN \/ fullmatch(SubSeq(pattern, 3, Len(pattern)), text)
         \/ /\ text # <<>>
            /\ CharMatches(pattern[1], text[1])
            /\ fullmatch(pattern, Tail(text))
    ELSE /\ text # <<>>
         /\ CharMatches(pattern[1], text[1])
         /\ fullmatch(Tail(pattern), Tail(text))

JobName(job) == Get(job.v, K_name).v
JobBegin(job) == Get(job.v, K_begin).v
JobEnd(job) == Get(job.v, K_end).v
JobFilters(job) ==
    LET l == Get(job.v, K_filters).v IN [i \in 1..Len(l) |-> l[i].v]
JobTasks(job) ==
    LET l == Get(job.v, K_tasks).v IN [i \in 1..Len(l) |-> l[i].v]

\* expanded_tasks: for every pattern in order, the task names it fully
\* matches, in the order of configuration["tasks"]
RECURSIVE MatchedNames(_, _)
MatchedNames(pattern, names) ==
    IF names = <<>> THEN <<>>
    ELSE (IF fullmatch(pattern, Head(names)) THEN <<Head(names)>> ELSE <<>>)
         \o MatchedNames(pattern, Tail(names))

RECURSIVE ExpandedTasks(_, _)
ExpandedTasks(patterns, names) ==
    IF patterns = <<>> THEN <<>>
    ELSE MatchedNames(Head(patterns), names) \o ExpandedTasks(Tail(patterns), names)

\* `found in configuration["tasks"]`: whether the boolean found is one of the
\* keys of the dict, whose keys are all str
FoundInTasks(found, tasks) ==
    \E i \in 1..Len(tasks) : <<"bool", found>> = <<"str", tasks[i][1]>>

\* `not found in configuration["tasks"]` parses as not (found in ...)
PatternRejected(pattern, tasks) ==
    LET found == MatchedNames(pattern, Keys(tasks)) # <<>>
    IN  ~FoundInTasks(found, tasks)

\* the checks on one job, in the order of the code: the first error, or NoError
JobError(configuration, job) ==
    IF ~Has(configuration.sources, JobName(job)) THEN "not listed in sources"
    ELSE IF \E i \in 1..Len(JobFilters(job)) :
                ~Has(configuration.filters, JobFilters(job)[i])
    THEN "unknown filter"
    ELSE IF \E i \in 1..Len(JobTasks(job)) :
                PatternRejected(JobTasks(job)[i], configuration.tasks)
    THEN "did not match any task names"
    ELSE IF ~TimecodeParses(JobBegin(job)) THEN "parsing begin failed"
    ELSE IF ~TimecodeParses(JobEnd(job)) THEN "parsing end failed"
    ELSE NoError

RECURSIVE JobsError(_, _)
JobsError(configuration, jobs) ==
    IF jobs = <<>> THEN NoError
    ELSE LET first == JobError(configuration, Head(jobs))
         IN  IF first # NoError THEN first
             ELSE JobsError(configuration, Tail(jobs))

\* the check of the attachment targets left out
NoAttachmentsError(configuration) == NoError

\* the targets of all the groups taken as one list
AttachmentsErrorAcrossGroups(configuration) ==
    IF \E g, h \in 1..Len(configuration.attachments) :
           \E a \in 1..Len(configuration.attachments[g][2]) :
               \E b \in 1..Len(configuration.attachments[h][2]) :
                   /\ <<g, a>> # <<h, b>>
                   /\ configuration.attachments[g][2][a].target
                          = configuration.attachments[h][2][b].target
    THEN "attachments share the same target"
    ELSE NoError

\* len(targets) != len(set(targets)) for some attachment group
AttachmentsError(configuration) ==
    IF \E g \in 1..Len(configuration.attachments) :
           LET files == configuration.attachments[g][2]
           IN  Cardinality({files[i].target : i \in 1..Len(files)}) # Len(files)
    THEN "attachments share the same target"
    ELSE NoError

SemanticError(configuration) ==
    LET jobs == JobsError(configuration, configuration.jobs)
    IN  IF jobs # NoError THEN jobs ELSE AttachmentsError(configuration)

K_icon == <<"i", "c", "o", "n">>

\* configuration["filters"] after the split of type, icon and suffix from the
\* parameters (the icon is only printed and is not held by the model)
SplitFilter(entry) ==
    [type |-> Get(entry.v, K_type).v,
     suffix |-> Get(entry.v, K_suffix).v,
     parameters |->
        Dict(SelectSeq(entry.v, LAMBDA kv : kv[1] \notin {K_type, K_icon, K_suffix}))]

SplitTask(entry) ==
    [type |-> Get(entry.v, K_type).v,
     parameters |->
        Dict(SelectSeq(entry.v, LAMBDA kv : kv[1] \notin {K_type, K_icon}))]

SplitParameters(configuration) ==
    [configuration EXCEPT
        !.filters = [i \in 1..Len(@) |-> <<@[i][1], SplitFilter(@[i][2])>>],
        !.tasks = [i \in 1..Len(@) |-> <<@[i][1], SplitTask(@[i][2])>>]]

\* ------------------------------------------------------------- file names
\* with_suffix(path, suffix): the suffix appended to the name
with_suffix(name, suffix) == name \o suffix

PartSuffix == <<".", "p", "a", "r", "t">>
EsSuffix == <<".", "e", "s">>
ParametersName == <<"p", "a", "r", "a", "m", "e", "t", "e", "r", "s", ".", "t", "o", "m", "l">>
\* pathlib's path.with_suffix(".part") of parameters.toml replaces ".toml"
ParametersPartName == <<"p", "a", "r", "a", "m", "e", "t", "e", "r", "s">> \o PartSuffix

\* the name of the job's output directory
RECURSIVE Suffixes(_, _)
Suffixes(configuration, filter_names) ==
    IF filter_names = <<>> THEN <<>>
    ELSE LET suffix == Get(configuration.filters, Head(filter_names)).suffix
         IN  (IF Len(suffix) > 0 THEN <<"-">> \o suffix ELSE <<>>)
             \o Suffixes(configuration, Tail(filter_names))

DirectoryName(configuration, job) ==
    JobName(job) \o <<"-", "b">> \o timestamp_to_short_timecode(timecode(JobBegin(job)))
    \o <<"-", "e">> \o timestamp_to_short_timecode(timecode(JobEnd(job)))
    \o Suffixes(configuration, JobFilters(job))

\* ------------------------------------------------------------------- files
\* The state record of a job (parameters.toml).  A key the file lacks is
\* added empty right after the load, so the record always holds the three
\* maps; "source" may be missing.
EmptyParameters ==
    [has_source |-> FALSE, source |-> <<>>, filters |-> <<>>, tasks |-> <<>>,
     attachments |-> <<>>]

FreshParameters(source) == [EmptyParameters EXCEPT !.has_source = TRUE, !.source = source]

\* The content of a file.  A recording is named by the source it was made
\* from and the filters applied to it, in order, each with its type, time
\* range and parameters; a truncated file has kind "partial".
NoContent ==
    [kind |-> "none", complete |-> FALSE, source |-> <<>>, chain |-> <<>>,
     value |-> EmptyParameters]

PartialContent == [NoContent EXCEPT !.kind = "partial"]

Recording(path) ==
    [NoContent EXCEPT !.kind = "es", !.complete = TRUE, !.source = path]

\* the parameters as toml.load reads them back from what toml.dump wrote
StoredParameters(parameters) ==
    [parameters EXCEPT
        !.filters = [i \in 1..Len(@) |-> <<@[i][1], toml_round_trip(@[i][2])>>],
        !.tasks = [i \in 1..Len(@) |-> <<@[i][1], toml_round_trip(@[i][2])>>]]

TomlContent(parameters) ==
    [NoContent EXCEPT !.kind = "toml", !.complete = TRUE,
                      !.value = StoredParameters(parameters)]

\* what a filter writes when it returns: its input, filtered
FilterOutput(input, filter, begin, end) ==
    [input EXCEPT !.chain =
        Append(@, <<filter.type, begin, end, json_dumps_sorted(filter.parameters)>>)]

\* what a task writes when it returns
TaskOutput(input, task, begin, end) ==
    [input EXCEPT !.kind = "task",
                  !.chain = Append(@, <<task.type, begin, end,
                                        json_dumps_sorted(task.parameters)>>)]

IsFile(files, path) == path \in DOMAIN files

Written(files, path, content) ==
    [q \in DOMAIN files \cup {path} |-> IF q = path THEN content ELSE files[q]]

\* Path.rename: the target is replaced
Renamed(files, from, to) ==
    [q \in (DOMAIN files \ {from}) \cup {to} |->
        IF q = to THEN files[from] ELSE files[q]]

\* ------------------------------------------------- configurations checked
X == <<"x">>
XB == <<"x", "-", "b", "0", "-", "e", "1">>
R1 == <<"r", "1">>
R2 == <<"r", "2">>
F1 == <<"f", "1">>
F2 == <<"f", "2">>
F9 == <<"f", "9">>
T1 == <<"t", "1">>
T2 == <<"t", "2">>
TypeDefault == <<"d", "e", "f", "a", "u", "l", "t">>
TypeArbiter == <<"a", "r", "b", "i", "t", "e", "r">>
TypeVideo == <<"v", "i", "d", "e", "o">>
K_window == <<"w">>
K_gain == <<"g">>
K_threshold == <<"t", "h">>
K_alpha == <<"a">>
K_beta == <<"b">>

\* a filter without suffix, whose parameters hold a sub-table before a number
F1Entry(gain) ==
    Dict(<< <<K_type, Str(TypeDefault)>>, <<K_suffix, Str(<<>>)>>,
            <<K_window, Dict(<< <<K_alpha, Num(0)>>, <<K_beta, Num(0)>> >>)>>,
            <<K_gain, Num(gain)>> >>)

\* a filter with a suffix
F2Entry(threshold) ==
    Dict(<< <<K_type, Str(TypeArbiter)>>, <<K_suffix, Str(<<"b", "0", "-", "e", "1">>)>>,
            <<K_threshold, Num(threshold)>> >>)

TaskEntry(alpha) == Dict(<< <<K_type, Str(TypeVideo)>>, <<K_alpha, Num(alpha)>> >>)

Texts(items) == List([i \in 1..Len(items) |-> Str(items[i])])

JobEntry(name, begin, end, filters, tasks) ==
    Dict(<< <<K_name, Str(name)>>, <<K_begin, Str(begin)>>, <<K_end, Str(end)>>,
            <<K_filters, Texts(filters)>>, <<K_tasks, Texts(tasks)>> >>)

FilterLists == {<<>>, <<F1>>, <<F2>>, <<F1, F2>>}

\* task patterns: a task name, a pattern matching both tasks followed by a
\* name (t1 is matched twice), a pattern matching nothing
TaskLists == {<<T1>>, << <<"t", ".">>, T1 >>, << <<"z">> >>}

\* begin and end of the jobs: a digit string is a number of microseconds
Zero == <<"0">>
OneSecond == <<"1", "0", "0", "0", "0", "0", "0">>

FirstJobs == {JobEntry(X, Zero, OneSecond, fl, <<>>) : fl \in FilterLists}
\* a second job: in the directory of a first job of the same name (the same
\* suffixes), or under the other name
SecondJobs ==
    {JobEntry(nf[1], Zero, OneSecond, nf[2], <<>>) :
        nf \in {<<X, <<>>>>, <<X, <<F1, F2>>>>, <<XB, <<F1>>>>}}

BaseFile ==
    [conforms |-> TRUE,
     filters |-> << <<F1, F1Entry(1)>>, <<F2, F2Entry(1)>> >>,
     tasks |-> << <<T1, TaskEntry(1)>>, <<T2, TaskEntry(1)>> >>,
     jobs |-> <<>>,
     sources |-> << <<X, R1>>, <<XB, R2>> >>,
     attachments |-> <<>>,
     filters_generators |-> <<>>,
     tasks_generators |-> <<>>,
     jobs_generators |-> <<>>]

InitialFiles ==
    {[BaseFile EXCEPT !.jobs = <<a>>] : a \in FirstJobs}
    \cup {[BaseFile EXCEPT !.jobs = <<a, b>>] : a \in FirstJobs, b \in SecondJobs}

Attachment(source, target) == [source |-> source, target |-> target]

\* attachment groups: one file, the same target from another source, two
\* files sharing a target
AttachmentGroups ==
    {<< Attachment(<<"n", "1">>, <<"n">>) >>,
     << Attachment(<<"n", "2">>, <<"n">>) >>,
     << Attachment(<<"n", "1">>, <<"n">>), Attachment(<<"n", "2">>, <<"n">>) >>}

\* the attachments of a file: one group for x, or a group for x and one for
\* x-b0-e1 that hold the same target
AttachmentTables ==
    {<< <<X, group>> >> : group \in AttachmentGroups}
    \cup {<< <<X, << Attachment(<<"n", "1">>, <<"n">>) >> >>,
              <<XB, << Attachment(<<"n", "2">>, <<"n">>) >> >> >>}

\* filters generators: as-@th over th = 1, 5; the same without parameters;
\* with value sequences of lengths 2 and 1; generating the existing name f1
Generator(parameters, name) ==
    [parameters |-> parameters,
     template |-> Dict(<< <<K_name, Str(name)>>, <<K_type, Str(TypeArbiter)>>,
                          <<K_suffix, Str(<<"a", "s">> \o Placeholder(K_threshold))>>,
                          <<K_threshold, Str(RawPlaceholder(K_threshold))>> >>)]

GeneratedName == <<"a", "s", "-">> \o Placeholder(K_threshold)

Generators ==
    {Generator(<< <<K_threshold, <<Num(1), Num(5)>> >> >>, GeneratedName),
     Generator(<<>>, GeneratedName),
     Generator(<< <<K_threshold, <<Num(1), Num(5)>> >>, <<K_gain, <<Num(1)>> >> >>,
               GeneratedName),
     Generator(<< <<K_threshold, <<Num(1)>> >> >>, F1)}

\* ------------------------------------------------------------------- state
VARIABLES
    file,           \* the configuration file, as toml.load reads it
    disk,           \* the files under the output directory: path -> content
    pc,             \* where the process is; "idle" when no process runs
    force,          \* args.force of the running process
    configuration,  \* the process's configuration, once validated
    index,          \* the job being processed
    name,           \* the name of the job's output directory
    source,         \* the job's source
    begin,          \* the job's begin, parsed
    end,            \* the job's end, parsed
    position,       \* the filter of the chain, or the task, being processed
    input,          \* the content of the file the next filter of a chain reads
    parameters,     \* the process's copy of the job's state record
    outcome,        \* how the last process ended
    log,            \* history: what the process of this run did, in order
    prev,           \* history: whether the run before ended well, unforced
    rerun,          \* history: this run repeats a run that ended well
    disk0,          \* history: the files when this run started
    runs,           \* runs started
    edits,          \* edits of the configuration file made
    call,           \* a function of the module called on its own: the arguments
    result          \* what the call returned

job_memory == <<name, source, begin, end>>
memory == <<configuration, index, job_memory, position, input, parameters>>
history == <<log, prev, rerun, disk0>>
functions == <<call, result>>
vars == <<file, disk, pc, force, memory, outcome, history, runs, edits, functions>>

NoConfiguration == [BaseFile EXCEPT !.filters = <<>>, !.tasks = <<>>, !.sources = <<>>]
NoOutcome == [kind |-> "none", at |-> "idle", job |-> 0, detail |-> NoError]
NoPrevious == [ok |-> FALSE, file |-> BaseFile]
NoTime == <<0, 0>>
NoCall == [op |-> "none"]
NoResult == [op |-> "none", value |-> <<>>]

Init ==
    /\ file \in InitialFiles
    /\ disk = << >>
    /\ pc = "idle"
    /\ force = FALSE
    /\ configuration = NoConfiguration
    /\ index = 0
    /\ name = <<>>
    /\ source = <<>>
    /\ begin = NoTime
    /\ end = NoTime
    /\ position = 0
    /\ input = NoContent
    /\ parameters = EmptyParameters
    /\ outcome = NoOutcome
    /\ log = <<>>
    /\ prev = NoPrevious
    /\ rerun = FALSE
    /\ disk0 = << >>
    /\ runs = 0
    /\ edits = 0
    /\ call = NoCall
    /\ result = NoResult

\* the process ends: sys.exit, an uncaught exception, or a kill
Exit(kind, detail) ==
    /\ pc' = "idle"
    /\ outcome' = [kind |-> kind, at |-> pc, job |-> index, detail |-> detail]
    /\ configuration' = NoConfiguration
    /\ index' = 0
    /\ name' = <<>>
    /\ source' = <<>>
    /\ begin' = NoTime
    /\ end' = NoTime
    /\ position' = 0
    /\ input' = NoContent
    /\ parameters' = EmptyParameters
    /\ prev' = IF kind = "ok" /\ ~force THEN [ok |-> TRUE, file |-> file] ELSE NoPrevious

\* the conformance of the document to render-configuration-schema.json
SchemaValid(document) == document.conforms

\* lines 595-659: schema, generators, schema again, the semantic checks in
\* the order of the code, the split of the parameters: how validation ends,
\* and the configuration the job loop works on
Validation(document) ==
    IF ~SchemaValid(document)
    THEN [kind |-> "exception", detail |-> "ValidationError",
          configuration |-> NoConfiguration]
    ELSE LET generated == run_generators(document)
         IN  IF generated.error # NoError
             THEN [kind |-> "error", detail |-> generated.error,
                   configuration |-> NoConfiguration]
             ELSE IF ~SchemaValid(generated.configuration)
             THEN [kind |-> "exception", detail |-> "ValidationError",
                   configuration |-> NoConfiguration]
             ELSE LET semantic == SemanticError(generated.configuration)
                  IN  IF semantic # NoError
                      THEN [kind |-> "error", detail |-> semantic,
                            configuration |-> NoConfiguration]
                      ELSE [kind |-> "ok", detail |-> NoError,
                            configuration |-> SplitParameters(generated.configuration)]

Job == configuration.jobs[index]
OutputPath == <<name, with_suffix(name, EsSuffix)>>
OutputPartPath == <<name, with_suffix(with_suffix(name, EsSuffix), PartSuffix)>>
ParametersPath == <<name, ParametersName>>
ParametersPartPath == <<name, ParametersPartName>>

\* a history entry: what was done, with the state record on disk and the
\* presence of the artifact at that moment
Event(op, subject, content) ==
    [op |-> op, job |-> index, name |-> subject, input |-> content,
     state |-> IF IsFile(disk, ParametersPath) THEN disk[ParametersPath].value
               ELSE EmptyParameters,
     artifact |-> IsFile(disk, OutputPath)]

\* the command line: render.py run [--force]
StartRun ==
    /\ pc = "idle"
    /\ runs < MaxRuns
    /\ \E f \in BOOLEAN :
        /\ force' = f
        /\ rerun' = (prev.ok /\ prev.file = file /\ ~f)
    /\ pc' = "validate"
    /\ runs' = runs + 1
    /\ outcome' = NoOutcome
    /\ log' = <<>>
    /\ prev' = NoPrevious
    /\ disk0' = disk
    /\ UNCHANGED functions
    /\ UNCHANGED <<file, disk, memory, edits>>

\* lines 595-667: the process ends on the first failure (an exception of the
\* schema validator, error()); nothing is written before the job loop
Validate ==
    /\ pc = "validate"
    /\ \E checked \in {Validation(file)} :
        IF checked.kind # "ok"
        THEN Exit(checked.kind, checked.detail)
        ELSE IF checked.configuration.jobs = <<>>
        THEN Exit("ok", NoError)
        ELSE /\ configuration' = checked.configuration
             /\ index' = 1
             /\ pc' = "job"
             /\ UNCHANGED <<job_memory, position, input, parameters, outcome, prev>>
    /\ UNCHANGED functions
    /\ UNCHANGED <<file, disk, force, log, rerun, disk0, runs, edits>>

\* lines 668-694: the directory name, the load of the state record, and its
\* reset when the source is missing or differs
BeginJob ==
    /\ pc = "job"
    /\ begin' = timecode(JobBegin(Job))
    /\ end' = timecode(JobEnd(Job))
    /\ name' = DirectoryName(configuration, Job)
    /\ source' = Get(configuration.sources, JobName(Job))
    /\ LET path == <<name', ParametersName>>
           loaded == IF IsFile(disk, path) THEN disk[path].value ELSE EmptyParameters
       IN  IF IsFile(disk, path) /\ ~disk[path].complete
           THEN /\ pc' = "idle"
                /\ outcome' = [kind |-> "exception", at |-> pc, job |-> index,
                               detail |-> "TomlDecodeError"]
                /\ parameters' = loaded
           ELSE /\ IF ~loaded.has_source \/ loaded.source # source'
                   THEN parameters' = FreshParameters(source') /\ pc' = "reset_write"
                   ELSE parameters' = loaded /\ pc' = "attachments"
                /\ outcome' = outcome
    /\ UNCHANGED functions
    /\ UNCHANGED <<file, disk, force, configuration, index, position, input, prev,
                   history, runs, edits>>

\* save_parameters, first half: the record written to parameters.part
SaveWrite(from, to) ==
    /\ pc = from
    /\ disk' = Written(disk, ParametersPartPath, TomlContent(parameters))
    /\ pc' = to
    /\ UNCHANGED functions
    /\ UNCHANGED <<file, force, memory, outcome, history, runs, edits>>

\* save_parameters, second half: parameters.part renamed to parameters.toml
SaveRename(from, to) ==
    /\ pc = from
    /\ disk' = Renamed(disk, ParametersPartPath, ParametersPath)
    /\ log' = Append(log, Event(IF from = "reset_rename" THEN "reset" ELSE "save",
                                <<>>, disk[ParametersPartPath]))
    /\ pc' = to
    /\ position' = IF to = "tasks" THEN 1 ELSE position
    /\ UNCHANGED functions
    /\ UNCHANGED <<file, force, configuration, index, job_memory, input, parameters,
                   outcome, prev, rerun, disk0, runs, edits>>

ResetWrite == SaveWrite("reset_write", "reset_rename")
ResetRename == SaveRename("reset_rename", "attachments")

\* lines 695-713.  configuration["attachments"] is a dict keyed by job name
\* (line 631 reads it with .items()), so the loop variable is a key, a str,
\* and attachment["target"] raises TypeError on the first iteration, forced
\* or not, before anything is copied.
Attachments ==
    /\ pc = "attachments"
    /\ IF configuration.attachments = <<>>
       THEN /\ pc' = "filters"
            /\ UNCHANGED <<memory, outcome, prev>>
       ELSE Exit("exception", "TypeError")
    /\ UNCHANGED functions
    /\ UNCHANGED <<file, disk, force, log, rerun, disk0, runs, edits>>

Filter(filter_name) == Get(configuration.filters, filter_name)

\* the snapshot of a filter is in the state record and equal to its parameters
SnapshotMatches(filter_name) ==
    /\ Has(parameters.filters, filter_name)
    /\ compare_parameters(Get(parameters.filters, filter_name),
                          Filter(filter_name).parameters)

\* line 717-724, the skip condition of a single filter
SkipFilter ==
    /\ ~force
    /\ SnapshotMatches(JobFilters(Job)[1])
    /\ IsFile(disk, OutputPath)

\* a chain skipped as soon as one of its filters is recorded unchanged
SkipChainAny ==
    /\ ~force
    /\ \E i \in 1..Len(JobFilters(Job)) : SnapshotMatches(JobFilters(Job)[i])
    /\ IsFile(disk, OutputPath)

\* line 739-752, the skip condition of a chain
SkipChain ==
    /\ ~force
    /\ \A i \in 1..Len(JobFilters(Job)) : SnapshotMatches(JobFilters(Job)[i])
    /\ IsFile(disk, OutputPath)

\* lines 714-726 and 738-759: which branch the filter stage takes
FilterStage ==
    /\ pc = "filters"
    /\ \E filters \in {JobFilters(Job)} :
        IF (IF Len(filters) = 1 THEN SkipFilter ELSE SkipChain)
        THEN /\ pc' = "tasks"
             /\ log' = Append(log, Event("skip filters", <<>>, NoContent))
             /\ position' = 1
             /\ input' = input
        ELSE /\ pc' = IF Len(filters) = 1 THEN "filter_call"
                      ELSE IF Len(filters) = 0 THEN "chain_rename"
                      ELSE "chain_call"
             /\ position' = 1
             /\ input' = Recording(source)
             /\ log' = log
    /\ UNCHANGED functions
    /\ UNCHANGED <<file, disk, force, configuration, index, job_memory, parameters,
                   outcome, prev, rerun, disk0, runs, edits>>

\* lines 727-734: the filter reads the source and writes the .part file
FilterCall ==
    /\ pc = "filter_call"
    /\ \E filter_name \in {JobFilters(Job)[1]} :
        /\ disk' = Written(disk, OutputPartPath,
                           FilterOutput(Recording(source), Filter(filter_name),
                                        begin, end))
        /\ log' = Append(log, Event("filter", filter_name, Recording(source)))
    /\ pc' = "filter_rename"
    /\ UNCHANGED functions
    /\ UNCHANGED <<file, force, memory, outcome, prev, rerun, disk0, runs, edits>>

\* lines 735-736 and 776: the .part file renamed to the artifact
\* (FileNotFoundError when there is no .part file); the single filter is
\* recorded in the process's state record right after
PublishArtifact(from, to, recorded) ==
    /\ pc = from
    /\ IF IsFile(disk, OutputPartPath)
       THEN /\ disk' = Renamed(disk, OutputPartPath, OutputPath)
            /\ log' = Append(log, Event("publish", <<>>, disk[OutputPartPath]))
            /\ pc' = to
            /\ parameters' = recorded
            /\ UNCHANGED <<configuration, index, job_memory, position, input,
                           outcome, prev>>
       ELSE /\ Exit("exception", "FileNotFoundError")
            /\ UNCHANGED <<disk, log>>
    /\ UNCHANGED functions
    /\ UNCHANGED <<file, force, rerun, disk0, runs, edits>>

FilterRename ==
    PublishArtifact("filter_rename", "filter_save_write",
        [parameters EXCEPT !.filters =
            Put(@, JobFilters(Job)[1], Filter(JobFilters(Job)[1]).parameters)])

FilterSaveWrite == SaveWrite("filter_save_write", "filter_save_rename")
FilterSaveRename == SaveRename("filter_save_rename", "tasks")

\* the chain applied from its last filter to its first
ChainCallBackwards ==
    /\ pc = "chain_call"
    /\ \E filters \in {JobFilters(Job)} :
        LET filter_name == filters[Len(filters) + 1 - position]
            last == position = Len(filters)
            output == FilterOutput(input, Filter(filter_name), begin, end)
        IN  /\ disk' = IF last THEN Written(disk, OutputPartPath, output) ELSE disk
            /\ input' = output
            /\ parameters' = [parameters EXCEPT !.filters =
                                 Put(@, filter_name, Filter(filter_name).parameters)]
            /\ log' = Append(log, Event("filter", filter_name, input))
            /\ pc' = IF last THEN "chain_rename" ELSE "chain_call"
    /\ position' = position + 1
    /\ UNCHANGED functions
    /\ UNCHANGED <<file, force, configuration, index, job_memory, outcome, prev,
                   rerun, disk0, runs, edits>>

\* lines 760-775: one filter of the chain; the last one writes the .part
\* file, the others a scratch file of the temporary directory
ChainCall ==
    /\ pc = "chain_call"
    /\ \E filters \in {JobFilters(Job)} :
        LET filter_name == filters[position]
            last == position = Len(filters)
            output == FilterOutput(input, Filter(filter_name), begin, end)
        IN  /\ disk' = IF last THEN Written(disk, OutputPartPath, output) ELSE disk
            /\ input' = output
            /\ parameters' = [parameters EXCEPT !.filters =
                                 Put(@, filter_name, Filter(filter_name).parameters)]
            /\ log' = Append(log, Event("filter", filter_name, input))
            /\ pc' = IF last THEN "chain_rename" ELSE "chain_call"
    /\ position' = position + 1
    /\ UNCHANGED functions
    /\ UNCHANGED <<file, force, configuration, index, job_memory, outcome, prev,
                   rerun, disk0, runs, edits>>

ChainRename == PublishArtifact("chain_rename", "chain_save_write", parameters)
ChainSaveWrite == SaveWrite("chain_save_write", "chain_save_rename")
ChainSaveRename == SaveRename("chain_save_rename", "tasks")

\* whether the filter about to run writes the .part file of the artifact
WritesArtifact ==
    pc = "filter_call" \/ (pc = "chain_call" /\ position = Len(JobFilters(Job)))

\* a filter raises and what it had written is found at the final path
FilterFailsPublishing ==
    /\ pc \in {"filter_call", "chain_call"}
    /\ disk' = Written(disk, OutputPath, PartialContent)
    /\ Exit("exception", "FilterError")
    /\ UNCHANGED functions
    /\ UNCHANGED <<file, force, log, rerun, disk0, runs, edits>>

\* a filter raises: nothing more is done; the file it was writing may have
\* been created, truncated
FilterFails ==
    /\ pc \in {"filter_call", "chain_call"}
    /\ \E wrote \in BOOLEAN :
        disk' = IF wrote /\ WritesArtifact
                THEN Written(disk, OutputPartPath, PartialContent)
                ELSE disk
    /\ Exit("exception", "FilterError")
    /\ UNCHANGED functions
    /\ UNCHANGED <<file, force, log, rerun, disk0, runs, edits>>

\* the fixed extension of a task type (tasks.video.EXTENSION)
TaskExtension(type) == <<".", "m", "p", "4">>

Task(task_name) == Get(configuration.tasks, task_name)

TaskOutputPath(task_name) ==
    <<name, name \o <<"-">> \o task_name \o TaskExtension(Task(task_name).type)>>

\* lines 783-790, the skip condition of a task
SkipTask(task_name) ==
    /\ ~force
    /\ Has(parameters.tasks, task_name)
    /\ compare_parameters(Get(parameters.tasks, task_name), Task(task_name).parameters)
    /\ IsFile(disk, OutputPath)

\* lines 778-803, the body of the loop over job["tasks"] for one entry: the
\* names looked up are the entries of job["tasks"] as configured
\* (expanded_tasks is not assigned to the job).  Validation ends the process
\* for every job that lists a pattern, so the body is never entered; it is
\* given in one step: the task's call, the rename of its .part file, the
\* record and save_parameters.
TaskBody(task_name) ==
    IF ~Has(configuration.tasks, task_name)
    THEN /\ Exit("exception", "KeyError")
         /\ UNCHANGED <<disk, log, pc>>
    ELSE IF SkipTask(task_name)
    THEN /\ position' = position + 1
         /\ log' = Append(log, Event("skip task", task_name, NoContent))
         /\ UNCHANGED <<configuration, index, job_memory, input, parameters,
                        outcome, prev, disk, pc>>
    ELSE LET recorded == [parameters EXCEPT !.tasks =
                            Put(@, task_name, Task(task_name).parameters)]
             read == IF IsFile(disk, OutputPath) THEN disk[OutputPath] ELSE NoContent
         IN  /\ disk' = Written(
                    Written(disk, TaskOutputPath(task_name),
                            TaskOutput(read, Task(task_name), begin, end)),
                    ParametersPath, TomlContent(recorded))
             /\ parameters' = recorded
             /\ position' = position + 1
             /\ log' = Append(log, Event("task", task_name, read))
             /\ UNCHANGED <<configuration, index, job_memory, input, outcome,
                            prev, pc>>

\* lines 778-807: the loop over job["tasks"], then the next job, or
\* sys.exit(0) after the last one
TaskStage ==
    /\ pc = "tasks"
    /\ \E tasks \in {JobTasks(Job)} :
        IF position > Len(tasks)
        THEN IF index < Len(configuration.jobs)
             THEN /\ index' = index + 1
                  /\ pc' = "job"
                  /\ UNCHANGED <<configuration, job_memory, position, input,
                                 parameters, outcome, prev, disk, log>>
             ELSE /\ Exit("ok", NoError)
                  /\ UNCHANGED <<disk, log>>
        ELSE TaskBody(tasks[position])
    /\ UNCHANGED functions
    /\ UNCHANGED <<file, force, rerun, disk0, runs, edits>>

\* the process is killed between two steps
Kill ==
    /\ pc # "idle"
    /\ Exit("killed", NoError)
    /\ UNCHANGED functions
    /\ UNCHANGED <<file, disk, force, log, rerun, disk0, runs, edits>>

\* the process is killed inside a step that writes a file of the output
\* directory: the file is left truncated
KillWriting ==
    /\ \/ /\ pc \in {"reset_write", "filter_save_write", "chain_save_write"}
          /\ disk' = Written(disk, ParametersPartPath, PartialContent)
       \/ /\ pc \in {"filter_call", "chain_call"}
          /\ WritesArtifact
          /\ disk' = Written(disk, OutputPartPath, PartialContent)
    /\ Exit("killed", NoError)
    /\ UNCHANGED functions
    /\ UNCHANGED <<file, force, log, rerun, disk0, runs, edits>>

\* ------------------------------------------- edits of the configuration file
\* between runs, one change of the file at a time
Edited(new) ==
    /\ pc = "idle"
    /\ runs > 0
    /\ edits < MaxEdits
    /\ new # file
    /\ file' = new
    /\ edits' = edits + 1
    /\ outcome' = NoOutcome
    /\ log' = <<>>
    /\ force' = FALSE
    /\ UNCHANGED functions
    /\ UNCHANGED <<disk, pc, memory, prev, rerun, disk0, runs>>

ParameterValues == {1, 2}

\* one number of one filter's or task's parameters is changed
WithNumber(entries, i, key, n) ==
    [entries EXCEPT ![i][2] = Dict(Put(@.v, key, Num(n)))]

NumberKeys(entry) ==
    {entry.v[k][1] : k \in {k \in 1..Len(entry.v) : entry.v[k][2].t = "int"}}

EditFilterParameter ==
    \E i \in 1..Len(file.filters) : \E key \in NumberKeys(file.filters[i][2]) :
        \E n \in ParameterValues :
            Edited([file EXCEPT !.filters = WithNumber(@, i, key, n)])

EditTaskParameter ==
    \E i \in 1..Len(file.tasks) : \E key \in NumberKeys(file.tasks[i][2]) :
        \E n \in ParameterValues :
            Edited([file EXCEPT !.tasks = WithNumber(@, i, key, n)])

\* the same mapping written with its keys in the opposite order, at every depth
RECURSIVE Reordered(_)
Reordered(value) ==
    IF IsDict(value)
    THEN Dict([i \in 1..Len(value.v) |->
                 <<value.v[Len(value.v) + 1 - i][1],
                   Reordered(value.v[Len(value.v) + 1 - i][2])>>])
    ELSE value

\* the keys of one filter or task entry are written in another order
EditKeyOrder ==
    \/ \E i \in 1..Len(file.filters) :
            Edited([file EXCEPT !.filters[i][2] = Reordered(@)])
    \/ \E i \in 1..Len(file.tasks) :
            Edited([file EXCEPT !.tasks[i][2] = Reordered(@)])

WithJobKey(jobs, j, key, value) == [jobs EXCEPT ![j] = Dict(Put(@.v, key, value))]

\* the filter list of a job is replaced (F9 names no filter)
EditJobFilters ==
    \E j \in 1..Len(file.jobs) : \E fl \in FilterLists \cup {<<F9>>} :
        Edited([file EXCEPT !.jobs = WithJobKey(@, j, K_filters, Texts(fl))])

EditJobTasks ==
    \E j \in 1..Len(file.jobs) : \E tl \in TaskLists :
        Edited([file EXCEPT !.jobs = WithJobKey(@, j, K_tasks, Texts(tl))])

\* begin or end of a job is replaced by another time or by a text that is
\* no timecode
EditJobTime ==
    \E j \in 1..Len(file.jobs) : \E key \in {K_begin, K_end} :
        \E text \in {<<"2">>, <<"x">>} :
            Edited([file EXCEPT !.jobs = WithJobKey(@, j, key, Str(text))])

EditSource ==
    \E i \in 1..Len(file.sources) : \E path \in {R1, R2} :
        Edited([file EXCEPT !.sources[i][2] = path])

RemoveSource ==
    \E i \in 1..Len(file.sources) :
        Edited([file EXCEPT !.sources = WithoutKey(@, file.sources[i][1])])

EditAttachments ==
    \E table \in AttachmentTables :
        Edited([file EXCEPT !.attachments = table])

EditSchemaViolation == Edited([file EXCEPT !.conforms = FALSE])

EditGenerators ==
    \E generator \in Generators :
        Edited([file EXCEPT !.filters_generators = <<generator>>])

Edit ==
    \/ EditFilterParameter
    \/ EditTaskParameter
    \/ EditKeyOrder
    \/ EditJobFilters
    \/ EditJobTasks
    \/ EditJobTime
    \/ EditSource
    \/ RemoveSource
    \/ EditAttachments
    \/ EditSchemaViolation
    \/ EditGenerators

Next ==
    \/ StartRun
    \/ Validate
    \/ BeginJob
    \/ ResetWrite
    \/ ResetRename
    \/ Attachments
    \/ FilterStage
    \/ FilterCall
    \/ FilterRename
    \/ FilterSaveWrite
    \/ FilterSaveRename
    \/ ChainCall
    \/ ChainRename
    \/ ChainSaveWrite
    \/ ChainSaveRename
    \/ FilterFails
    \/ TaskStage
    \/ Kill
    \/ KillWriting
    \/ Edit

Spec == Init /\ [][Next]_vars

\* ------------------------------------------------ functions called on their own
\* run_generators on one collection, and the timecode codec, applied to
\* arguments drawn from the sets below; the process of the run command is
\* not started.
K_threshold10 == K_threshold \o <<"1", "0">>

\* a template: name, type, suffix, a typed parameter and a sub-table holding
\* a text with a placeholder
Template(template_name, suffix) ==
    Dict(<< <<K_name, Str(template_name)>>, <<K_type, Str(TypeArbiter)>>,
            <<K_suffix, Str(suffix)>>,
            <<K_threshold, Str(RawPlaceholder(K_threshold))>>,
            <<K_window, Dict(<< <<K_alpha, Str(<<"n", "=">> \o Placeholder(K_threshold))>>,
                                <<K_beta, Str(RawPlaceholder(K_threshold))>> >>)>> >>)

Numbers(ns) == [i \in 1..Len(ns) |-> Num(ns[i])]

AsName == <<"a", "s", "-", "@", "t", "h">>
AsSuffix == <<"a", "s", "@", "t", "h">>
PairName == <<"a", "s", "-", "@", "t", "h", "-", "@", "g">>
PrefixName == <<"p", "-", "@", "t", "h", "1", "0", "-", "@", "t", "h">>
PrefixSuffix == <<"@", "t", "h", "1", "0">>

GeneratorSamples ==
    {\* threshold = [1, 5, 10], name as-@th, suffix as@th
     [parameters |-> << <<K_threshold, Numbers(<<1, 5, 10>>)>> >>,
      template |-> Template(AsName, AsSuffix)],
     \* no parameters
     [parameters |-> <<>>, template |-> Template(AsName, AsSuffix)],
     \* sequences of lengths 3 and 2
     [parameters |-> << <<K_threshold, Numbers(<<1, 5, 10>>)>>,
                        <<K_gain, Numbers(<<1, 2>>)>> >>,
      template |-> Template(PairName, AsSuffix)],
     \* two parameters of two values each
     [parameters |-> << <<K_threshold, Numbers(<<1, 5>>)>>,
                        <<K_gain, Numbers(<<7, 8>>)>> >>,
      template |-> Template(PairName, AsSuffix)],
     \* a parameter name that is a prefix of another, in both orders
     [parameters |-> << <<K_threshold, Numbers(<<1>>)>>,
                        <<K_threshold10, Numbers(<<99>>)>> >>,
      template |-> Template(PrefixName, PrefixSuffix)],
     [parameters |-> << <<K_threshold10, Numbers(<<99>>)>>,
                        <<K_threshold, Numbers(<<1>>)>> >>,
      template |-> Template(PrefixName, PrefixSuffix)],
     \* the same name generated twice by one generator
     [parameters |-> << <<K_threshold, Numbers(<<1, 1>>)>> >>,
      template |-> Template(AsName, AsSuffix)],
     \* the name of a configured entry
     [parameters |-> << <<K_threshold, Numbers(<<1>>)>> >>,
      template |-> Template(F1, AsSuffix)],
     \* a boolean and a number
     [parameters |-> << <<K_threshold, <<Bool(TRUE), Num(2)>>>> >>,
      template |-> Template(AsName, AsSuffix)]}

\* the collections generated into: filters or tasks as configured
CollectionSamples ==
    {[key |-> "filters", collection |-> BaseFile.filters],
     [key |-> "tasks", collection |-> BaseFile.tasks]}

SecondsSamples == {0, 1, 59, 60, 3599, 3600, 86399, 360000, 999999}
MicrosSamples == {0, 1, 10, 123456, 500000, 999999}

\* jobs generators over th = [1, 5]: the placeholder in the filters list of
\* the template (as in the example the configure command writes), or in the
\* text of begin
JobGeneratorSamples ==
    {[parameters |-> << <<K_threshold, Numbers(<<1, 5>>)>> >>,
      template |-> JobEntry(X, Zero, OneSecond, <<AsName>>, <<>>)],
     [parameters |-> << <<K_threshold, Numbers(<<1, 5>>)>> >>,
      template |-> JobEntry(X, Placeholder(K_threshold), OneSecond, <<F1>>, <<>>)]}

\* timestamps around the changes of form of the short timecode: seconds,
\* minutes, hours, with and without a fraction
ShortSamples ==
    {<<seconds, micros>> :
        seconds \in {0, 1, 10, 60, 61, 600, 3600, 3660, 36000},
        micros \in {0, 1, 100000}}

\* line 670: the part of the directory name that holds begin and end
TimeRange(from, to) ==
    <<"-", "b">> \o timestamp_to_short_timecode(from)
    \o <<"-", "e">> \o timestamp_to_short_timecode(to)

Calls ==
    {[op |-> "run_generators", key |-> c.key, collection |-> c.collection,
      generators |-> <<g>>, timestamp |-> NoTime, until |-> NoTime] :
        c \in CollectionSamples, g \in GeneratorSamples}
    \cup {[op |-> "run_generators", key |-> c.key, collection |-> c.collection,
           generators |-> <<g, h>>, timestamp |-> NoTime, until |-> NoTime] :
        c \in CollectionSamples, g \in GeneratorSamples, h \in GeneratorSamples}
    \cup {[op |-> "jobs_generators", key |-> "jobs", collection |-> jobs,
           generators |-> <<g>>, timestamp |-> NoTime, until |-> NoTime] :
        jobs \in {<<>>, <<JobEntry(X, Zero, OneSecond, <<F1>>, <<>>)>>},
        g \in JobGeneratorSamples}
    \cup {[op |-> "timecode", key |-> "none", collection |-> <<>>,
           generators |-> <<>>, timestamp |-> <<seconds, micros>>,
           until |-> NoTime] :
        seconds \in SecondsSamples, micros \in MicrosSamples}
    \cup {[op |-> "time_range", key |-> "none", collection |-> <<>>,
           generators |-> <<>>, timestamp |-> from, until |-> to] :
        from \in ShortSamples, to \in ShortSamples}

Returned(op, value) == [op |-> op, value |-> value]

FunctionsInit ==
    /\ file = BaseFile
    /\ disk = << >>
    /\ pc = "idle"
    /\ force = FALSE
    /\ configuration = NoConfiguration
    /\ index = 0
    /\ name = <<>>
    /\ source = <<>>
    /\ begin = NoTime
    /\ end = NoTime
    /\ position = 0
    /\ input = NoContent
    /\ parameters = EmptyParameters
    /\ outcome = NoOutcome
    /\ log = <<>>
    /\ prev = NoPrevious
    /\ rerun = FALSE
    /\ disk0 = << >>
    /\ runs = 0
    /\ edits = 0
    /\ call \in Calls
    /\ result = NoResult

run_command == <<file, disk, pc, force, memory, outcome, history, runs, edits>>

\* lines 284-339 for one key: the generators of the call, in order
CallGenerators ==
    /\ call.op = "run_generators"
    /\ result.op = "none"
    /\ result' = Returned("run_generators",
                          RunGeneratorsOfKind(call.key, call.collection, call.generators))
    /\ UNCHANGED <<call, run_command>>

\* timestamp_to_timecode(timestamp)
FormatTimestamp ==
    /\ call.op = "timecode"
    /\ result.op = "none"
    /\ result' = Returned("timestamp_to_timecode", timestamp_to_timecode(call.timestamp))
    /\ UNCHANGED <<call, run_command>>

\* timecode(value) on the text just formatted
ParseTimecode ==
    /\ result.op = "timestamp_to_timecode"
    /\ result' = Returned("timecode", timecode(result.value))
    /\ UNCHANGED <<call, run_command>>

\* lines 668-670 on begin and end as timecode returned them
NameTimeRange ==
    /\ call.op = "time_range"
    /\ result.op = "none"
    /\ result' = Returned("time_range",
                          [begin |-> timestamp_to_short_timecode(call.timestamp),
                           end |-> timestamp_to_short_timecode(call.until),
                           name |-> TimeRange(call.timestamp, call.until)])
    /\ UNCHANGED <<call, run_command>>

\* lines 284-339 for the key "jobs": the entries are appended to the list
CallJobsGenerators ==
    /\ call.op = "jobs_generators"
    /\ result.op = "none"
    /\ result' = Returned("jobs_generators",
                          RunGeneratorsOfKind(call.key, call.collection, call.generators))
    /\ UNCHANGED <<call, run_command>>

FunctionsNext ==
    \/ NameTimeRange
    \/ CallJobsGenerators
    \/ CallGenerators
    \/ FormatTimestamp
    \/ ParseTimecode

Functions == FunctionsInit /\ [][FunctionsNext]_vars

\* -------------------------------------------------------------- properties
\* the entries of the history for one job, of the given kinds, in order
Events(ops, j) == SelectSeq(log, LAMBDA e : e.op \in ops /\ e.job = j)

EventNames(ops, j) == [i \in 1..Len(Events(ops, j)) |-> Events(ops, j)[i].name]

\* two parameter values are equal as dicts are: the same keys, holding equal
\* values, in whatever order
RECURSIVE SameValue(_, _)
SameValue(a, b) ==
    IF a.t # b.t THEN FALSE
    ELSE IF a.t = "dict"
    THEN /\ {a.v[i][1] : i \in 1..Len(a.v)} = {b.v[i][1] : i \in 1..Len(b.v)}
         /\ \A i \in 1..Len(a.v) : SameValue(a.v[i][2], Get(b.v, a.v[i][1]))
    ELSE IF a.t = "list"
    THEN /\ Len(a.v) = Len(b.v)
         /\ \A i \in 1..Len(a.v) : SameValue(a.v[i], b.v[i])
    ELSE a.v = b.v

EndsWith(text, suffix) ==
    /\ Len(text) >= Len(suffix)
    /\ SubSeq(text, Len(text) - Len(suffix) + 1, Len(text)) = suffix

PatternUnmatched(pattern, tasks) ==
    \A i \in 1..Len(tasks) : ~fullmatch(pattern, tasks[i][1])

\* the configuration file has one of the faults validation is to reject
Faulty(document) ==
    \/ ~document.conforms
    \/ run_generators(document).error # NoError
    \/ LET c == run_generators(document).configuration
       IN  \/ \E j \in 1..Len(c.jobs) :
                LET job == c.jobs[j]
                IN  \/ ~Has(c.sources, JobName(job))
                    \/ \E i \in 1..Len(JobFilters(job)) :
                          ~Has(c.filters, JobFilters(job)[i])
                    \/ \E i \in 1..Len(JobTasks(job)) :
                          PatternUnmatched(JobTasks(job)[i], c.tasks)
                    \/ ~TimecodeParses(JobBegin(job))
                    \/ ~TimecodeParses(JobEnd(job))
           \/ \E g \in 1..Len(c.attachments) :
                LET files == c.attachments[g][2]
                IN  \E a, b \in 1..Len(files) :
                        a # b /\ files[a].target = files[b].target

\* the configuration of the file, as the job loop of a process reads it
Configured == SplitParameters(run_generators(file).configuration)

\* the task names the patterns of a job resolve to
Resolved(c, job) == ExpandedTasks(JobTasks(job), Keys(c.tasks))

\* the process has ended by sys.exit
Settled == pc = "idle" /\ outcome.kind \in {"ok", "error"}

\* the state record of the job's directory, among the given files, holds a
\* snapshot equal to the parameters of the entry
Recorded(files, directory, kind, entry_name, entry) ==
    /\ IsFile(files, <<directory, ParametersName>>)
    /\ files[<<directory, ParametersName>>].complete
    /\ Has(files[<<directory, ParametersName>>].value[kind], entry_name)
    /\ SameValue(Get(files[<<directory, ParametersName>>].value[kind], entry_name),
                 entry.parameters)

\* every attachment configured for the job is at its target in the directory
AttachmentsPresent(c, job) ==
    \A g \in 1..Len(c.attachments) :
        c.attachments[g][1] = JobName(job) =>
            \A a \in 1..Len(c.attachments[g][2]) :
                IsFile(disk, <<DirectoryName(c, job), c.attachments[g][2][a].target>>)

\* C1: in a non-forced run that repeats, on the same configuration file and
\* the same files, a non-forced run that completed successfully, no filter
\* and no task is invoked for any job.
C1_Idempotent ==
    rerun => \A i \in 1..Len(log) : log[i].op \notin {"filter", "task"}

C3_AtomicPublication ==
    \A path \in DOMAIN disk :
        ~EndsWith(path[2], PartSuffix) => disk[path].complete

\* the filters of the job were all invoked in this run, in chain order, the
\* first on the job's source and each of the others on what the one before
\* it wrote
WholeChain(j) ==
    LET job == configuration.jobs[j]
        chain == JobFilters(job)
        es == Events({"filter"}, j)
    IN  /\ Len(es) = Len(chain)
        /\ \A k \in 1..Len(es) :
            /\ es[k].name = chain[k]
            /\ es[k].input =
                IF k = 1 THEN Recording(Get(configuration.sources, JobName(job)))
                ELSE FilterOutput(es[k - 1].input,
                                  Get(configuration.filters, chain[k - 1]),
                                  timecode(JobBegin(job)), timecode(JobEnd(job)))

C5_CompletedStageNotRedone ==
    (pc \in {"filter_call", "chain_call"} /\ ~force /\ edits = 0) =>
        ~(/\ IsFile(disk0, OutputPath)
          /\ IsFile(disk0, ParametersPath)
          /\ disk0[ParametersPath].value.has_source
          /\ disk0[ParametersPath].value.source = source
          /\ \A k \in 1..Len(JobFilters(Job)) :
                Recorded(disk0, name, "filters", JobFilters(Job)[k],
                         Filter(JobFilters(Job)[k])))

\* C6: a process whose configuration file has a fault never gets past
\* validation: it ends there, not successfully, having invoked nothing and
\* with the files of the output directory as they were when it started.
C6_FatalBeforeJobs ==
    /\ pc \notin {"idle", "validate"} => ~Faulty(file)
    /\ (pc = "idle" /\ outcome.kind # "none" /\ Faulty(file)) =>
            /\ outcome.at = "validate"
            /\ outcome.kind # "ok"
            /\ log = <<>>
            /\ disk = disk0

\* a process has ended in validation, with an error, on a faulty file,
\* while an earlier run had left files in the output directory
C6_Witness ==
    /\ pc = "idle"
    /\ outcome.at = "validate"
    /\ outcome.kind \in {"error", "exception"}
    /\ Faulty(file)
    /\ DOMAIN disk0 # {}

\* C7: validation ends with the error of the task patterns only if some
\* pattern of some job fully matches no key of tasks.
C7_UnmatchedTaskPattern ==
    (/\ pc = "idle"
     /\ outcome.at = "validate"
     /\ outcome.kind = "error"
     /\ outcome.detail = "did not match any task names") =>
        \E j \in 1..Len(run_generators(file).configuration.jobs) :
            LET job == run_generators(file).configuration.jobs[j]
            IN  \E i \in 1..Len(JobTasks(job)) :
                    PatternUnmatched(JobTasks(job)[i],
                                     run_generators(file).configuration.tasks)

\* C8: when a run of a sound configuration has ended by itself, the tasks
\* processed for each job (invoked or skipped) are, in order, the names its
\* patterns resolve to, duplicates included.
C8_TasksResolved ==
    (Settled /\ ~Faulty(file)) =>
        \A j \in 1..Len(Configured.jobs) :
            EventNames({"task", "skip task"}, j)
                = Resolved(Configured, Configured.jobs[j])

\* C9: when the attachment stage of a job is over, otherwise than by a
\* kill, every attachment configured for the job is at its target.
C9_AttachmentsCopied ==
    /\ pc = "filters" => AttachmentsPresent(configuration, Job)
    /\ (pc = "idle" /\ outcome.at = "attachments" /\ outcome.kind # "killed") =>
            AttachmentsPresent(Configured, Configured.jobs[outcome.job])

\* C10: when a process has ended, neither killed nor by the failure of a
\* filter, every job whose state record it reset has had its attachments
\* copied, each of its filters invoked and each of its tasks invoked.
C10_ResetRedoesJob ==
    (/\ pc = "idle"
     /\ outcome.kind \in {"ok", "exception"}
     /\ outcome.detail # "FilterError") =>
        \A i \in 1..Len(log) :
            log[i].op = "reset" =>
                LET job == Configured.jobs[log[i].job]
                IN  /\ AttachmentsPresent(Configured, job)
                    /\ \A k \in 1..Len(JobFilters(job)) :
                          JobFilters(job)[k] \in
                              {e.name : e \in {log[n] : n \in {n \in 1..Len(log) :
                                  log[n].op = "filter" /\ log[n].job = log[i].job}}}
                    /\ \A k \in 1..Len(Resolved(Configured, job)) :
                          Resolved(Configured, job)[k] \in
                              {e.name : e \in {log[n] : n \in {n \in 1..Len(log) :
                                  log[n].op = "task" /\ log[n].job = log[i].job}}}

\* the state record of the entry holds, for the filter, a snapshot equal to
\* the parameters configured for it
Unchanged(e, filter_name) ==
    /\ Has(e.state.filters, filter_name)
    /\ SameValue(Get(e.state.filters, filter_name),
                 Get(configuration.filters, filter_name).parameters)

\* C11: the filter stage of a job is skipped only when every snapshot of
\* the state record is equal, as a mapping and whatever the order of the
\* keys at any depth, to the parameters configured for the filter; and, in
\* a non-forced run with the artifact in place, a filter is invoked only
\* when some snapshot is missing or differs in a value.
C11_SemanticEquality ==
    pc # "idle" =>
        \A i \in 1..Len(log) :
            LET chain == JobFilters(configuration.jobs[log[i].job])
            IN  /\ (log[i].op = "skip filters" /\ chain # <<>>) =>
                      \A k \in 1..Len(chain) : Unchanged(log[i], chain[k])
                /\ (log[i].op = "filter" /\ ~force /\ log[i].artifact) =>
                      \E k \in 1..Len(chain) : ~Unchanged(log[i], chain[k])

\* the filter of a job is skipped after the keys of its entry were written
\* in another order: the snapshot and the configured parameters differ as
\* written and are equal as mappings
C11_Witness ==
    /\ pc = "tasks"
    /\ Len(JobFilters(Job)) = 1
    /\ Events({"skip filters"}, index) # <<>>
    /\ Get(file.filters, JobFilters(Job)[1]) # Get(BaseFile.filters, JobFilters(Job)[1])
    /\ Get(parameters.filters, JobFilters(Job)[1]) # Filter(JobFilters(Job)[1]).parameters
    /\ Get(parameters.filters, JobFilters(Job)[1])
         # toml_round_trip(Filter(JobFilters(Job)[1]).parameters)

\* C12: when a forced run of a sound configuration has ended, neither
\* killed nor by the failure of a filter, then for every job every
\* attachment is at its target, every filter of the job was invoked, in
\* order, and every task the job resolves to was invoked.
C12_ForcedRunRedoesAll ==
    (/\ pc = "idle"
     /\ force
     /\ outcome.kind \in {"ok", "error", "exception"}
     /\ outcome.detail # "FilterError"
     /\ ~Faulty(file)) =>
        \A j \in 1..Len(Configured.jobs) :
            /\ AttachmentsPresent(Configured, Configured.jobs[j])
            /\ EventNames({"filter"}, j) = JobFilters(Configured.jobs[j])
            /\ EventNames({"task"}, j) = Resolved(Configured, Configured.jobs[j])

\* C13: the step in which a filter invocation fails ends the process;
\* nothing is done after the failing invocation (the history is as it
\* was), and every file at a final path, the artifacts and state records
\* of earlier jobs and of earlier stages of this job among them, is left
\* as it was: none is created, replaced or removed.
C13_FailureAborts ==
    [][(pc \in {"filter_call", "chain_call"} /\ outcome'.detail = "FilterError") =>
            /\ pc' = "idle"
            /\ log' = log
            /\ DOMAIN disk \subseteq DOMAIN disk'
            /\ \A path \in DOMAIN disk' :
                  ~EndsWith(path[2], PartSuffix) =>
                      path \in DOMAIN disk /\ disk'[path] = disk[path]]_vars

\* a filter of the second job has failed, leaving a truncated .part file,
\* after the first job had published its artifact
C13_Witness ==
    /\ pc = "idle"
    /\ outcome.detail = "FilterError"
    /\ outcome.job = 2
    /\ \E path \in DOMAIN disk : EndsWith(path[2], EsSuffix) /\ disk[path].complete
    /\ \E path \in DOMAIN disk : EndsWith(path[2], PartSuffix) /\ ~disk[path].complete


\* ---- run_generators, stated apart from the loop that computes it

StartsAt(text, p, pattern) ==
    /\ p + Len(pattern) - 1 <= Len(text)
    /\ SubSeq(text, p, p + Len(pattern) - 1) = pattern

\* the parameters of a generator paired with their i-th values
Bindings(generator, i) ==
    {<<generator.parameters[k][1], generator.parameters[k][2][i]>> :
        k \in DOMAIN generator.parameters}

\* a text read left to right, every placeholder replaced by the text of its
\* value, the longest parameter name winning where several match
RECURSIVE Expand(_, _, _)
Expand(text, p, bindings) ==
    IF p > Len(text) THEN <<>>
    ELSE LET matching == {b \in bindings : StartsAt(text, p, Placeholder(b[1]))}
         IN  IF matching = {} THEN <<text[p]>> \o Expand(text, p + 1, bindings)
             ELSE LET b == CHOOSE b \in matching :
                               \A c \in matching : Len(c[1]) <= Len(b[1])
                  IN  ToText(b[2]) \o Expand(text, p + Len(b[1]) + 1, bindings)

RECURSIVE ExpandValue(_, _)
ExpandValue(value, bindings) ==
    IF IsStr(value)
    THEN IF \E b \in bindings : value.v = RawPlaceholder(b[1])
         THEN (CHOOSE b \in bindings : value.v = RawPlaceholder(b[1]))[2]
         ELSE Str(Expand(value.v, 1, bindings))
    ELSE IF IsDict(value)
    THEN Dict([k \in DOMAIN value.v |->
                  <<value.v[k][1], ExpandValue(value.v[k][2], bindings)>>])
    ELSE value

Lengths(generator) ==
    {Len(generator.parameters[k][2]) : k \in DOMAIN generator.parameters}

Uniform(generator) == Cardinality(Lengths(generator)) = 1

\* the entries a generator of L values per parameter stands for, in order
ExpectedEntries(generator) ==
    LET L == CHOOSE n \in Lengths(generator) : TRUE
        template == generator.template.v
    IN  [i \in 1..L |->
            <<Expand(Get(template, K_name).v, 1, Bindings(generator, i)),
              ExpandValue(Dict(WithoutKey(template, K_name)),
                          Bindings(generator, i))>>]

RECURSIVE ExpectedOfAll(_)
ExpectedOfAll(generators) ==
    IF generators = <<>> THEN <<>>
    ELSE ExpectedEntries(Head(generators)) \o ExpectedOfAll(Tail(generators))

Distinct(pairs) ==
    \A i, j \in DOMAIN pairs : pairs[i][1] = pairs[j][1] => i = j

GeneratorsReturned == result.op = "run_generators"


\* C14: a generator whose parameters all hold L values, and whose names are
\* new and pairwise distinct, adds exactly L entries after the existing
\* ones: the i-th is the template without its name, every placeholder
\* replaced by the i-th value of its parameter, under the substituted name.
C14_GeneratorIsZip ==
    (/\ GeneratorsReturned
     /\ \A k \in DOMAIN call.generators : Uniform(call.generators[k])
     /\ Distinct(call.collection \o ExpectedOfAll(call.generators)))
    => /\ result.value.error = NoError
       /\ result.value.collection
              = call.collection \o ExpectedOfAll(call.generators)
       /\ Len(call.generators) = 1
          => Len(result.value.collection)
                 = Len(call.collection) + Len(call.generators[1].parameters[1][2])

\* threshold = [1, 5, 10] with name as-@th and suffix as@th gives as-1, as-5
\* and as-10 with suffixes as1, as5 and as10
C14_Witness ==
    /\ GeneratorsReturned
    /\ call.key = "filters"
    /\ Len(call.generators) = 1
    /\ call.generators[1].parameters = << <<K_threshold, Numbers(<<1, 5, 10>>)>> >>
    /\ Len(result.value.collection) = Len(call.collection) + 3
    /\ LET n == Len(call.collection)
           generated == result.value.collection
       IN  /\ <<generated[n + 1][1], generated[n + 2][1], generated[n + 3][1]>>
                  = <<<<"a", "s", "-", "1">>, <<"a", "s", "-", "5">>, <<"a", "s", "-", "1", "0">>>>
           /\ Get(generated[n + 1][2].v, K_suffix) = Str(<<"a", "s", "1">>)
           /\ Get(generated[n + 2][2].v, K_suffix) = Str(<<"a", "s", "5">>)
           /\ Get(generated[n + 3][2].v, K_suffix) = Str(<<"a", "s", "1", "0">>)
           /\ Get(generated[n + 3][2].v, K_threshold) = Num(10)
           /\ ~Has(generated[n + 3][2].v, K_name)


Malformed(generator) == ~Uniform(generator)

MalformedError(generator) ==
    IF generator.parameters = <<>> THEN "no parameters"
    ELSE "different numbers of values"

\* C15: a generator without parameters, or whose parameters hold sequences
\* of different lengths, ends run_generators with an error, and none of its
\* entries is added: the collection holds what it held when the generator
\* was reached.
C15_MalformedGenerator ==
    GeneratorsReturned =>
        \A k \in DOMAIN call.generators :
            LET earlier == SubSeq(call.generators, 1, k - 1)
                reached == call.collection \o ExpectedOfAll(earlier)
            IN  (/\ Malformed(call.generators[k])
                 /\ \A e \in DOMAIN earlier : Uniform(earlier[e])
                 /\ Distinct(reached))
                => /\ result.value.error = MalformedError(call.generators[k])
                   /\ result.value.collection = reached

\* sequences of lengths 3 and 2
C15_Witness ==
    /\ GeneratorsReturned
    /\ Len(call.generators) = 1
    /\ Lengths(call.generators[1]) = {2, 3}
    /\ result.value.error = "different numbers of values"
    /\ result.value.collection = call.collection


\* C16: when the generators of a collection succeed, the keys of the
\* collection are pairwise distinct and the entries it held are unchanged;
\* when a generated name equals a key the collection holds, configured or
\* generated earlier, by the same generator or another, the expansion ends
\* with an error and the entries it held are unchanged.
C16_GeneratedNamesUnique ==
    GeneratorsReturned =>
        LET existing == Len(call.collection)
            expected == call.collection \o ExpectedOfAll(call.generators)
        IN  /\ SubSeq(result.value.collection, 1, existing) = call.collection
            /\ result.value.error = NoError
               => /\ Distinct(result.value.collection)
                  /\ Len(result.value.collection) = Len(expected)
            /\ (/\ \A k \in DOMAIN call.generators : Uniform(call.generators[k])
                /\ ~Distinct(expected))
               => result.value.error = "name already exists"

\* one generator generates the same name twice
C16_Witness ==
    /\ GeneratorsReturned
    /\ Len(call.generators) = 1
    /\ call.generators[1].parameters = << <<K_threshold, Numbers(<<1, 1>>)>> >>
    /\ result.value.error = "name already exists"
    /\ Len(result.value.collection) = Len(call.collection) + 1


IsProperPrefix(short, long) ==
    Len(short) < Len(long) /\ SubSeq(long, 1, Len(short)) = short

PrefixPair(generator) ==
    \E i, j \in DOMAIN generator.parameters :
        IsProperPrefix(generator.parameters[i][1], generator.parameters[j][1])

DeclaredBackwards(generator) ==
    [generator EXCEPT !.parameters =
        [i \in DOMAIN generator.parameters |->
            generator.parameters[Len(generator.parameters) + 1 - i]]]

Contains(text, pattern) == \E p \in 1..Len(text) : StartsAt(text, p, pattern)

ShorterThenRest == <<"1", "1", "0">>

\* C17: in a generator where one parameter name is a proper prefix of
\* another (th = [1], th10 = [99]), the name and the texts of the generated
\* entry hold the longer parameter's value wherever the longer placeholder
\* stood, never the shorter parameter's value followed by the rest of the
\* name ("110"), and declaring the parameters in the opposite order gives
\* the same result.
C17_PlaceholderPrecedence ==
    (/\ GeneratorsReturned
     /\ Len(call.generators) = 1
     /\ PrefixPair(call.generators[1])
     /\ Uniform(call.generators[1]))
    => LET generator == call.generators[1]
           existing == Len(call.collection)
           generated == result.value.collection
       IN  /\ result.value.error = NoError
           /\ Len(generated) = existing + 1
           /\ generated[existing + 1][1]
                  = Expand(Get(generator.template.v, K_name).v, 1,
                           Bindings(generator, 1))
           /\ ~Contains(generated[existing + 1][1], ShorterThenRest)
           /\ Get(generated[existing + 1][2].v, K_suffix)
                  = Str(Expand(Get(generator.template.v, K_suffix).v, 1,
                               Bindings(generator, 1)))
           /\ ~Contains(Get(generated[existing + 1][2].v, K_suffix).v, ShorterThenRest)
           /\ result.value
                  = RunGeneratorsOfKind(call.key, call.collection,
                                        <<DeclaredBackwards(generator)>>)

\* the shorter name is declared first: p-@th10-@th becomes p-99-1 and the
\* suffix @th10 becomes 99
C17_Witness ==
    /\ GeneratorsReturned
    /\ Len(call.generators) = 1
    /\ call.generators[1].parameters
           = << <<K_threshold, Numbers(<<1>>)>>,
                <<K_threshold10, Numbers(<<99>>)>> >>
    /\ LET entry == result.value.collection[Len(call.collection) + 1]
       IN  /\ entry[1] = <<"p", "-", "9", "9", "-", "1">>
           /\ Get(entry[2].v, K_suffix) = Str(<<"9", "9">>)
           /\ Get(entry[2].v, K_threshold) = Num(1)


\* C18: for the sampled timestamps t with 0 <= t < 10^12 microseconds,
\* timestamp_to_timecode(t) is a text HH:MM:SS.ffffff that timecode parses,
\* and timecode(timestamp_to_timecode(t)) = t.
C18_TimecodeRoundTrip ==
    /\ call.op = "timecode"
       => /\ call.timestamp[1] \in 0..(SecondMicros - 1)
          /\ call.timestamp[2] \in 0..(SecondMicros - 1)
    /\ result.op = "timestamp_to_timecode"
       => /\ ~IsDigit(result.value)
          /\ TimecodeParses(result.value)
          /\ Len(TimecodeGroups(result.value)[4]) = FractionDigits
          /\ Len(TimecodeGroups(result.value)[2]) = 2
          /\ Len(TimecodeGroups(result.value)[3]) = 2
    /\ result.op = "timecode" => result.value = call.timestamp

\* 00:59:59.000001 is parsed back to 3599 s and 1 microsecond
C18_Witness ==
    /\ result.op = "timecode"
    /\ call.timestamp = <<3599, 1>>
    /\ result.value = <<3599, 1>>


\* some attachment group of the file holds the same target twice
DuplicateTarget(c) ==
    \E g \in 1..Len(c.attachments) :
        \E a, b \in 1..Len(c.attachments[g][2]) :
            a # b /\ c.attachments[g][2][a].target = c.attachments[g][2][b].target

TargetError == "attachments share the same target"

\* C19: a process whose file holds a group with the same target twice ends,
\* unless killed, in validation with an error, before any job: nothing invoked, the files
\* as they were; and validation ends with the error of the shared target
\* only then: targets that are distinct within every group, the same target
\* in two groups included, do not raise it.
C19_DuplicateTargets ==
    /\ (pc \notin {"idle", "validate"}) => ~DuplicateTarget(file)
    /\ (pc = "idle" /\ outcome.kind \notin {"none", "killed"}
                    /\ DuplicateTarget(file)) =>
            /\ outcome.at = "validate"
            /\ outcome.kind \in {"error", "exception"}
            /\ log = <<>>
            /\ disk = disk0
    /\ (pc = "idle" /\ outcome.detail = TargetError) =>
            /\ DuplicateTarget(file)
            /\ outcome.at = "validate"
            /\ outcome.kind = "error"

\* validation has ended with the error of the shared target, on a file
\* whose group for x holds the target n twice
C19_Witness ==
    /\ pc = "idle"
    /\ outcome.kind = "error"
    /\ outcome.detail = TargetError
    /\ Len(Get(file.attachments, X)) = 2
    /\ log = <<>>


\* two jobs differ in name, begin, end or filter list
JobsDiffer(a, b) ==
    \/ JobName(a) # JobName(b)
    \/ timecode(JobBegin(a)) # timecode(JobBegin(b))
    \/ timecode(JobEnd(a)) # timecode(JobEnd(b))
    \/ JobFilters(a) # JobFilters(b)

\* C20: in the job loop, two jobs of the configuration that differ in name,
\* begin, end or filter list have different output directories, and so
\* different state records and artifacts.
C20_OneDirectoryPerJob ==
    pc \notin {"idle", "validate"} =>
        \A i, j \in DOMAIN configuration.jobs :
            LET a == configuration.jobs[i]
                b == configuration.jobs[j]
            IN  JobsDiffer(a, b) =>
                    /\ DirectoryName(configuration, a) # DirectoryName(configuration, b)
                    /\ <<DirectoryName(configuration, a), ParametersName>>
                           # <<DirectoryName(configuration, b), ParametersName>>


\* the place of a step in the body of the job loop
StageRank(p) ==
    CASE p = "job" -> 1
      [] p \in {"reset_write", "reset_rename"} -> 2
      [] p = "attachments" -> 3
      [] p = "filters" -> 4
      [] p \in {"filter_call", "chain_call"} -> 5
      [] p \in {"filter_rename", "chain_rename"} -> 6
      [] p \in {"filter_save_write", "chain_save_write"} -> 7
      [] p \in {"filter_save_rename", "chain_save_rename"} -> 8
      [] p = "tasks" -> 9
      [] OTHER -> 0

IsPrefix(short, long) ==
    Len(short) <= Len(long) /\ SubSeq(long, 1, Len(short)) = short

\* what the process has done so far is in order
OrderedSoFar ==
    /\ \A i, k \in DOMAIN log : i < k => log[i].job <= log[k].job
    /\ \A j \in DOMAIN configuration.jobs :
          IsPrefix(EventNames({"filter"}, j), JobFilters(configuration.jobs[j]))
    /\ \A i \in DOMAIN log :
          log[i].op \in {"task", "skip task"}
          => /\ log[i].artifact
             /\ \A k \in DOMAIN log :
                   (log[k].job = log[i].job
                    /\ log[k].op \in {"filter", "publish", "skip filters"}) => k < i
    /\ pc = "tasks" => IsFile(disk, OutputPath)

\* C21: the process works on one job at a time, in the order of the
\* configuration, and goes to the next job only from the end of the task
\* stage; within a job it never steps back: state record, attachments,
\* filters in the order of the job's list, tasks; the task stage, and every
\* task invoked, finds the job's artifact at its final path.
C21_StageOrder ==
    [][/\ OrderedSoFar
       /\ (pc \notin {"idle", "validate"} /\ pc' # "idle")
          => \/ /\ index' = index
                /\ StageRank(pc') >= StageRank(pc)
                /\ pc' = "filters" => pc = "attachments"
                /\ pc' = "tasks" /\ pc # "tasks" => StageRank(pc) \in {4, 8}
             \/ /\ index' = index + 1
                /\ pc = "tasks"
                /\ position > Len(JobTasks(Job))
                /\ pc' = "job"
       /\ (pc = "validate" /\ pc' # "idle") => index' = 1 /\ pc' = "job"]_vars

\* the second job of a run is at its task stage after the two filters of
\* the first job and its own filter were invoked
C21_Witness ==
    /\ pc = "tasks"
    /\ index = 2
    /\ Len(JobFilters(configuration.jobs[1])) = 2
    /\ EventNames({"filter"}, 1) = JobFilters(configuration.jobs[1])
    /\ EventNames({"filter"}, 2) = JobFilters(configuration.jobs[2])
    /\ EventNames({"filter"}, 2) # <<>>
    /\ IsFile(disk, OutputPath)


\* an entry holds, where its template holds exactly "@raw(p)", the value of
\* p as it is, and where it holds another text, that text with the text of
\* the values in place of the placeholders, at every depth
RECURSIVE TypedAndTextual(_, _, _)
TypedAndTextual(template, entry, bindings) ==
    IF IsStr(template)
    THEN IF \E b \in bindings : template.v = RawPlaceholder(b[1])
         THEN \A b \in bindings :
                 template.v = RawPlaceholder(b[1])
                 => entry.t = b[2].t /\ entry.v = b[2].v
         ELSE /\ IsStr(entry)
              /\ entry.v = Expand(template.v, 1, bindings)
    ELSE IF IsDict(template)
    THEN /\ IsDict(entry)
         /\ Len(entry.v) = Len(template.v)
         /\ \A k \in DOMAIN template.v :
               /\ entry.v[k][1] = template.v[k][1]
               /\ TypedAndTextual(template.v[k][2], entry.v[k][2], bindings)
    ELSE entry = template

\* C22: in every entry a generator generates, a text of the template that
\* is exactly "@raw(p)", at any depth, has become the i-th value of p with
\* its type (a number, a boolean), and every other text has its
\* placeholders "@p" replaced by the text of the value and is still a text.
C22_TypedAndTextual ==
    (/\ GeneratorsReturned
     /\ Len(call.generators) = 1
     /\ result.value.error = NoError)
    => LET generator == call.generators[1]
           existing == Len(call.collection)
           count == Len(result.value.collection) - existing
       IN  /\ count = Len(generator.parameters[1][2])
           /\ \A i \in 1..count :
                 TypedAndTextual(
                     Dict(WithoutKey(generator.template.v, K_name)),
                     result.value.collection[existing + i][2],
                     Bindings(generator, i))

\* th = [True, 2]: the entry as-True holds the boolean where the template
\* held "@raw(th)", also in the sub-table, and the texts asTrue and n=True
C22_Witness ==
    /\ GeneratorsReturned
    /\ Len(call.generators) = 1
    /\ call.generators[1].parameters = << <<K_threshold, <<Bool(TRUE), Num(2)>>>> >>
    /\ result.value.error = NoError
    /\ LET entry == result.value.collection[Len(call.collection) + 1]
       IN  /\ entry[1] = <<"a", "s", "-", "T", "r", "u", "e">>
           /\ Get(entry[2].v, K_threshold) = Bool(TRUE)
           /\ Get(Get(entry[2].v, K_window).v, K_beta) = Bool(TRUE)
           /\ Get(Get(entry[2].v, K_window).v, K_alpha) = Str(<<"n", "=", "T", "r", "u", "e">>)
           /\ Get(entry[2].v, K_suffix) = Str(<<"a", "s", "T", "r", "u", "e">>)


\* C23: over the sampled timestamps, the short timecode of a timestamp is
\* the short timecode of no other timestamp, and the text -b..-e.. of a
\* pair (begin, end) is the text of no other pair.
C23_ShortTimecodeInjective ==
    result.op = "time_range" =>
        /\ \A t \in ShortSamples :
              /\ t # call.timestamp
                 => timestamp_to_short_timecode(t) # result.value.begin
              /\ t # call.until
                 => timestamp_to_short_timecode(t) # result.value.end
        /\ \A from, to \in ShortSamples :
              <<from, to>> # <<call.timestamp, call.until>>
              => TimeRange(from, to) # result.value.name

\* one minute and a tenth of a second to one hour: -b1:00.1-e1:00:00
C23_Witness ==
    /\ result.op = "time_range"
    /\ call.timestamp = <<60, 100000>>
    /\ call.until = <<3600, 0>>
    /\ result.value.name
           = <<"-", "b", "1", ":", "0", "0", ".", "1",
               "-", "e", "1", ":", "0", "0", ":", "0", "0">>


\* what the filters of a list write, applied in order from an input
RECURSIVE Applied(_, _, _, _)
Applied(content, filter_names, from, to) ==
    IF filter_names = <<>> THEN content
    ELSE Applied(FilterOutput(content, Filter(Head(filter_names)), from, to),
                 Tail(filter_names), from, to)

\* C24: when the filter stage of the job at hand was skipped in a run that
\* is not forced, the file at the job's final path is what the job's
\* filters, as configured now and in the order of the job's list, write
\* from the job's source as configured now.
C24_SkippedArtifactIsCurrent ==
    (pc = "tasks" /\ ~force /\ Events({"skip filters"}, index) # <<>>) =>
        /\ IsFile(disk, OutputPath)
        /\ disk[OutputPath] = Applied(Recording(source), JobFilters(Job), begin, end)


\* the final path of the artifact of a job, and of the output of a task
ArtifactPath(c, job) ==
    <<DirectoryName(c, job), with_suffix(DirectoryName(c, job), EsSuffix)>>

OutputPathOfTask(c, job, task_name) ==
    <<DirectoryName(c, job),
      DirectoryName(c, job) \o <<"-">> \o task_name
          \o TaskExtension(Get(c.tasks, task_name).type)>>

\* the filter stage of the job has to be invoked by the run: the run is
\* forced, or the artifact or the record of one of the filters was missing
\* or out of date when it started
FilterStageDue(c, job) ==
    \/ force
    \/ ~IsFile(disk0, ArtifactPath(c, job))
    \/ \E k \in 1..Len(JobFilters(job)) :
          ~Recorded(disk0, DirectoryName(c, job), "filters", JobFilters(job)[k],
                    Get(c.filters, JobFilters(job)[k]))

RECURSIVE HoldsPlaceholder(_, _)
HoldsPlaceholder(value, parameter_names) ==
    IF IsStr(value)
    THEN \E n \in parameter_names :
            \/ Contains(value.v, Placeholder(n))
            \/ Contains(value.v, RawPlaceholder(n))
    ELSE IF IsDict(value)
    THEN \E k \in DOMAIN value.v : HoldsPlaceholder(value.v[k][2], parameter_names)
    ELSE IF IsList(value)
    THEN \E k \in DOMAIN value.v : HoldsPlaceholder(value.v[k], parameter_names)
    ELSE FALSE

\* C27: after a generator has been expanded without error, no text of a
\* generated entry, nor its name, holds "@p" or "@raw(p)" for a parameter
\* p of the generator: in the mappings and in the lists of the entry.
C27_NoPlaceholderSurvives ==
    (/\ result.op \in {"run_generators", "jobs_generators"}
     /\ Len(call.generators) = 1
     /\ result.value.error = NoError)
    => LET generator == call.generators[1]
           names == {generator.parameters[k][1] : k \in DOMAIN generator.parameters}
           existing == Len(call.collection)
           generated == result.value.collection
       IN  \A i \in (existing + 1)..Len(generated) :
              IF call.key = "jobs"
              THEN ~HoldsPlaceholder(generated[i], names)
              ELSE /\ ~HoldsPlaceholder(Str(generated[i][1]), names)
                   /\ ~HoldsPlaceholder(generated[i][2], names)


FilterStagePlaces ==
    {"filters", "filter_call", "filter_rename", "filter_save_write",
     "filter_save_rename", "chain_call", "chain_rename", "chain_save_write",
     "chain_save_rename"}

\* C28: for a job whose filters list is empty no filter is invoked, and the
\* process does not end by an exception in the filter stage of such a job.
C28_EmptyFilterList ==
    /\ (pc \notin {"idle", "validate"} /\ JobFilters(Job) = <<>>)
       => Events({"filter"}, index) = <<>>
    /\ (/\ pc = "idle"
        /\ outcome.kind = "exception"
        /\ outcome.at \in FilterStagePlaces)
       => JobFilters(Configured.jobs[outcome.job]) # <<>>

====
